---- MODULE Spec2Model ----
(***************************************************************************)
(* Model of creds-installer.py: the installer (create_temp_creds_script,   *)
(* update_aws_credentials_config, main) and the credential fetcher it      *)
(* writes to ~/.aws/get_temp_creds.py (get_cached_credentials,             *)
(* fetch_new_credentials and the script's __main__ block).                 *)
(*                                                                         *)
(* Time is counted in minutes.  A JSON object is the ordered list of its   *)
(* key/value pairs, as a Python dict is.  A file holding JSON is the list  *)
(* of the tokens json.dump writes; a write lands at the writer's own file  *)
(* offset, which is 0 after open(..., "w").                                *)
(***************************************************************************)
EXTENDS Integers, Sequences, FiniteSets, TLC

VARIABLES
    now,        \* datetime.now(timezone.utc), in minutes
    cache,      \* CACHE_FILE: [exists, data], data the tokens in the file
    lastWrite,  \* history: the last write of the cache file: [by, body, printed]
    pc,         \* pc[p]: where fetcher invocation p stands
    cred,       \* cred[p]: the local `credentials` of fetch_new_credentials
    out,        \* out[p]: the JSON objects p printed on standard output
    code,       \* code[p]: p's exit code (0 unless exit(1) or an uncaught exception)
    tb,         \* tb[p]: p died of an uncaught exception (traceback on stderr)
    calls,      \* calls[p]: the requests.get calls p made
    seen,       \* seen[p]: history: the cache file as p's invocation found it
    seenAt,     \* seenAt[p]: history: `current_time` when p read the cache
    resp,       \* resp[p]: history: the response p's request got
    awsDir,     \* ~/.aws exists
    script,     \* ~/.aws/get_temp_creds.py: [exists, exec, text]
    credsFile,  \* ~/.aws/credentials: [exists, sections]
    ipc,        \* where the installer run stands
    icode,      \* the installer's exit code (0 unless sys.exit(1))
    run         \* history: the inputs and the files as the installer run found them

fetcherVars == <<now, cache, lastWrite, pc, cred, out, code, tb,
                 calls, seen, seenAt, resp>>
installerVars == <<awsDir, script, credsFile, ipc, icode, run>>
vars == <<fetcherVars, installerVars>>

(***************************************************************************)
(* Bounds of the model.                                                    *)
(***************************************************************************)
MaxTime == 3          \* the clock runs over 0..MaxTime
MaxOffset == 2        \* the UTC offsets the API may attach: 0 and +MaxOffset minutes

(***************************************************************************)
(* Program constants.                                                      *)
(***************************************************************************)
EXPIRATION_THRESHOLD == 5

Procs == {1, 2}

(***************************************************************************)
(* JSON values.  A string value is either ISO-8601 text, described by the  *)
(* wall-clock time it spells, whether it carries a UTC offset and which,   *)
(* or other text.                                                          *)
(***************************************************************************)
Str(x) == [kind |-> "str", s |-> x, wall |-> 0, aware |-> FALSE, off |-> 0]
Iso(w, a, o) == [kind |-> "iso", s |-> "", wall |-> w, aware |-> a, off |-> o]

Pair(key, val) == [k |-> key, v |-> val]

Has(obj, key) == \E i \in 1..Len(obj) : obj[i].k = key

Get(obj, key) == obj[CHOOSE i \in 1..Len(obj) : obj[i].k = key].v

\* obj[key] = val on a dict: an existing key keeps its place, a new one is appended
Put(obj, key, val) ==
    IF Has(obj, key)
    THEN [i \in 1..Len(obj) |-> IF obj[i].k = key THEN Pair(key, val) ELSE obj[i]]
    ELSE Append(obj, Pair(key, val))

(***************************************************************************)
(* json.dump / json.load on the cache file.                                *)
(***************************************************************************)
Tok(ty, key, val) == [t |-> ty, k |-> key, v |-> val]
OpenTok == Tok("{", "", Str(""))
CloseTok == Tok("}", "", Str(""))

JsonDump(obj) ==
    <<OpenTok>> \o [i \in 1..Len(obj) |-> Tok("pair", obj[i].k, obj[i].v)]
                \o <<CloseTok>>

\* json.load raises JSONDecodeError on an empty file and on data after the object
JsonValid(data) ==
    /\ Len(data) >= 2
    /\ data[1].t = "{"
    /\ data[Len(data)].t = "}"
    /\ \A i \in 2..(Len(data) - 1) : data[i].t = "pair"

JsonLoadSkipsFirst(data) ==
    [i \in 1..(Len(data) - 3) |-> Pair(data[i + 2].k, data[i + 2].v)]

JsonLoad(data) == [i \in 1..(Len(data) - 2) |-> Pair(data[i + 1].k, data[i + 1].v)]

\* write(2) of `new` at offset 0 of a file holding `old`: what lies past it stays
WriteAt0(old, new) == new \o SubSeq(old, Len(new) + 1, Len(old))

(***************************************************************************)
(* datetime.fromisoformat(..).replace(tzinfo=timezone.utc)[.isoformat()]   *)
(***************************************************************************)
\* fromisoformat raises TypeError on None and ValueError on text that is not ISO
CanParseExpiration(obj) ==
    /\ Has(obj, "Expiration")
    /\ Get(obj, "Expiration").kind = "iso"

\* replace(tzinfo=utc) keeps the wall-clock fields and sets the offset to UTC
ReplaceTzUtc(t) == Iso(t.wall, TRUE, 0)

\* the instant an aware datetime denotes, in UTC minutes; a naive one is read as UTC
Instant(t) == IF t.aware THEN t.wall - t.off ELSE t.wall

IsFreshOffByOne(t, current) == current <= t.wall - EXPIRATION_THRESHOLD

IsFreshReversed(t, current) == current > t.wall - EXPIRATION_THRESHOLD

\* line 57: current_time < (expiration_time - EXPIRATION_THRESHOLD)
IsFresh(t, current) == current < Instant(ReplaceTzUtc(t)) - EXPIRATION_THRESHOLD

(***************************************************************************)
(* The API.                                                                *)
(***************************************************************************)
\* the wall-clock times the API's Expiration may spell: one the clock passes
\* (expired from MaxTime - 1 on), one fresh at time 0 only, one fresh until the
\* clock's last minute
Walls == {MaxTime - 1, EXPIRATION_THRESHOLD + 1, EXPIRATION_THRESHOLD + MaxTime}

Expirations ==
    {Iso(w, FALSE, 0) : w \in Walls}
        \cup {Iso(w, TRUE, o) : w \in Walls, o \in {0, MaxOffset}}
        \cup {Str("soon")}

Identity(n) ==
    <<Pair("AccessKeyId", Str(IF n = 1 THEN "AKIA1" ELSE "AKIA2")),
      Pair("SecretAccessKey", Str(IF n = 1 THEN "secret1" ELSE "secret2")),
      Pair("SessionToken", Str(IF n = 1 THEN "token1" ELSE "token2"))>>

\* the JSON bodies of 2xx responses: with and without Expiration, with and
\* without a pass-through field
Bodies ==
    {Identity(n) : n \in {1, 2}}
        \cup {Identity(n) \o <<Pair("Expiration", e)>> : n \in {1, 2}, e \in Expirations}
        \cup {<<Pair("Version", Str("1"))>> \o Identity(1) \o <<Pair("Expiration", e)>> :
                 e \in Expirations}

NoBody == <<>>

Responses ==
    {[status |-> "ok", body |-> b] : b \in Bodies}
        \cup {[status |-> s, body |-> NoBody] : s \in {"network_error", "http_error"}}

NoResponse == [status |-> "none", body |-> NoBody]

\* requests.get raised, or raise_for_status did: a requests.RequestException
RequestFailed(r) == r.status \in {"network_error", "http_error"}

ErrorObject == <<Pair("error", Str("Failed to fetch credentials"))>>

NoFile == [exists |-> FALSE, data |-> <<>>]

NoWrite == [by |-> 0, body |-> NoBody, printed |-> <<>>]

(***************************************************************************)
(* The fetcher: one invocation of get_temp_creds.py is process p.          *)
(***************************************************************************)
InitFetcher ==
    /\ now = 0
    /\ cache = NoFile
    /\ lastWrite = NoWrite
    /\ pc = [p \in Procs |-> "idle"]
    /\ cred = [p \in Procs |-> <<>>]
    /\ out = [p \in Procs |-> <<>>]
    /\ code = [p \in Procs |-> 0]
    /\ tb = [p \in Procs |-> FALSE]
    /\ calls = [p \in Procs |-> 0]
    /\ seen = [p \in Procs |-> NoFile]
    /\ seenAt = [p \in Procs |-> 0]
    /\ resp = [p \in Procs |-> NoResponse]

\* an exception nothing catches: traceback on stderr, nothing printed, exit code 1
Uncaught(p) ==
    /\ pc' = [pc EXCEPT ![p] = "done"]
    /\ tb' = [tb EXCEPT ![p] = TRUE]
    /\ code' = [code EXCEPT ![p] = 1]

\* print(json.dumps(obj)) as the last statement of the script: exit code 0
PrintAndExit(p, obj) ==
    /\ pc' = [pc EXCEPT ![p] = "done"]
    /\ out' = [out EXCEPT ![p] = Append(out[p], obj)]

\* get_cached_credentials returned None: `or` goes on to fetch_new_credentials
MustFetch(p) == pc' = [pc EXCEPT ![p] = "request"]

\* a new process starts and runs get_cached_credentials (lines 46-60, 81-82)
GetCached(p) ==
    /\ pc[p] \in {"idle", "done"}
    /\ seen' = [seen EXCEPT ![p] = cache]
    /\ seenAt' = [seenAt EXCEPT ![p] = now]
    /\ cred' = [cred EXCEPT ![p] = <<>>]
    /\ calls' = [calls EXCEPT ![p] = 0]
    /\ resp' = [resp EXCEPT ![p] = NoResponse]
    /\ UNCHANGED <<now, cache, lastWrite, installerVars>>
    /\ IF ~cache.exists
       THEN /\ MustFetch(p)
            /\ out' = [out EXCEPT ![p] = <<>>]
            /\ code' = [code EXCEPT ![p] = 0]
            /\ tb' = [tb EXCEPT ![p] = FALSE]
       ELSE IF ~JsonValid(cache.data) \/ ~CanParseExpiration(JsonLoad(cache.data))
       THEN /\ Uncaught(p)
            /\ out' = [out EXCEPT ![p] = <<>>]
       ELSE IF IsFresh(Get(JsonLoad(cache.data), "Expiration"), now)
       THEN /\ pc' = [pc EXCEPT ![p] = "done"]
            /\ out' = [out EXCEPT ![p] = <<JsonLoad(cache.data)>>]
            /\ code' = [code EXCEPT ![p] = 0]
            /\ tb' = [tb EXCEPT ![p] = FALSE]
       ELSE /\ MustFetch(p)
            /\ out' = [out EXCEPT ![p] = <<>>]
            /\ code' = [code EXCEPT ![p] = 0]
            /\ tb' = [tb EXCEPT ![p] = FALSE]

ExceptFallsBackToCache(p) ==
    /\ pc' = [pc EXCEPT ![p] = "done"]
    /\ out' = [out EXCEPT ![p] = Append(out[p],
                   IF seen[p].exists THEN JsonLoad(seen[p].data) ELSE ErrorObject)]
    /\ UNCHANGED <<tb, cred, code>>

\* lines 76-78: print the error object, exit(1)
ExceptRequestException(p) ==
    /\ pc' = [pc EXCEPT ![p] = "done"]
    /\ out' = [out EXCEPT ![p] = Append(out[p], ErrorObject)]
    /\ code' = [code EXCEPT ![p] = 1]
    /\ UNCHANGED <<tb, cred>>

\* line 70: credentials["Expiration"] = fromisoformat(..).replace(tzinfo=utc).isoformat()
Normalized(body) == Put(body, "Expiration", ReplaceTzUtc(Get(body, "Expiration")))

\* lines 64-70 and 76-78: the request, up to the point where the cache is opened
Request(p) ==
    /\ pc[p] = "request"
    /\ \E r \in Responses :
        /\ calls' = [calls EXCEPT ![p] = calls[p] + 1]
        /\ resp' = [resp EXCEPT ![p] = r]
        /\ IF RequestFailed(r)
           THEN ExceptRequestException(p)
           ELSE IF ~CanParseExpiration(r.body)
           THEN Uncaught(p) /\ UNCHANGED <<out, cred>>
           ELSE /\ cred' = [cred EXCEPT ![p] = Normalized(r.body)]
                /\ pc' = [pc EXCEPT ![p] = "open"]
                /\ UNCHANGED <<out, code, tb>>
    /\ UNCHANGED <<now, cache, lastWrite, seen, seenAt, installerVars>>

\* line 72: open(CACHE_FILE, "w") creates the file or truncates it
OpenCache(p) ==
    /\ pc[p] = "open"
    /\ cache' = [exists |-> TRUE, data |-> <<>>]
    /\ pc' = [pc EXCEPT ![p] = "dump"]
    /\ UNCHANGED <<now, lastWrite, cred, out, code, tb, calls, seen,
                   seenAt, resp, installerVars>>

\* lines 73-75 and 82: json.dump and close (the buffered text reaches the file
\* in one write at the descriptor's offset), return, print
DumpCache(p) ==
    /\ pc[p] = "dump"
    /\ cache' = [exists |-> TRUE, data |-> WriteAt0(cache.data, JsonDump(cred[p]))]
    /\ lastWrite' = [by |-> p, body |-> resp[p].body, printed |-> cred[p]]
    /\ PrintAndExit(p, cred[p])
    /\ UNCHANGED <<now, cred, code, tb, calls, seen, seenAt, resp, installerVars>>

\* the clock
Tick ==
    /\ now < MaxTime
    /\ now' = now + 1
    /\ UNCHANGED <<cache, lastWrite, pc, cred, out, code, tb, calls,
                   seen, seenAt, resp, installerVars>>

(***************************************************************************)
(* The installer.                                                          *)
(***************************************************************************)
\* os.getenv: None when the variable is not set, else its text
Unset == [set |-> FALSE, val |-> ""]
Val(x) == [set |-> TRUE, val |-> x]

ApiUrls == {Unset, Val(""), Val("https://one"), Val("https://two"),
            Val("API_KEY_PLACEHOLDER")}
ApiKeys == {Unset, Val(""), Val("key-one"), Val("key-two")}

\* `not x` on the result of os.getenv
Falsy(e) == ~e.set \/ e.val = ""

MissingEnvOnlyUnset(u, k) == ~u.set \/ ~k.set

\* line 16: if not api_url or not api_key
MissingEnv(u, k) == Falsy(u) \/ Falsy(k)

\* the script template, cut where the two placeholders stand (lines 34-83)
ScriptTemplate ==
    <<"#!/usr/bin/env python3 ... API_URL = ", "API_URL_PLACEHOLDER",
      " API_KEY = ", "API_KEY_PLACEHOLDER",
      " EXPIRATION_THRESHOLD = timedelta(minutes=5) ...">>

\* str.replace: every occurrence of `old` becomes `new`
Replace(text, old, new) == [i \in 1..Len(text) |-> IF text[i] = old THEN new ELSE text[i]]

\* line 86: the two placeholders replaced, one after the other
ScriptContent(url, key) ==
    Replace(Replace(ScriptTemplate, "API_URL_PLACEHOLDER", url),
            "API_KEY_PLACEHOLDER", key)

SCRIPT_PATH == "~/.aws/get_temp_creds.py"
SECTION == "temp-creds-session"
OPTION == "credential_process"

NoScript == [exists |-> FALSE, exec |-> FALSE, text |-> <<>>]

Section(n, o) == [name |-> n, opts |-> o]

\* ConfigParser.optionxform: option names are lower-cased
Lower(key) ==
    CASE key = "AWS_ACCESS_KEY_ID" -> "aws_access_key_id"
      [] key = "Region" -> "region"
      [] OTHER -> key

\* ConfigParser.read (strict): DuplicateSectionError, DuplicateOptionError
ConfigReadable(secs) ==
    /\ \A i, j \in 1..Len(secs) : secs[i].name = secs[j].name => i = j
    /\ \A i \in 1..Len(secs) : \A a, b \in 1..Len(secs[i].opts) :
           Lower(secs[i].opts[a].k) = Lower(secs[i].opts[b].k) => a = b

ConfigRead(secs) ==
    [i \in 1..Len(secs) |->
        Section(secs[i].name,
                [a \in 1..Len(secs[i].opts) |->
                    Pair(Lower(secs[i].opts[a].k), secs[i].opts[a].v)])]

HasSection(cfg, n) == \E i \in 1..Len(cfg) : cfg[i].name = n

UpsertOnlyProfile(cfg, path) == <<Section(SECTION, <<Pair(OPTION, path)>>)>>

\* lines 109-112: add the section if it is not there, set credential_process in it
Upsert(cfg, path) ==
    LET with == IF HasSection(cfg, SECTION) THEN cfg
                ELSE Append(cfg, Section(SECTION, <<>>))
    IN  [i \in 1..Len(with) |->
            IF with[i].name = SECTION
            THEN Section(SECTION, Put(with[i].opts, Lower(OPTION), path))
            ELSE with[i]]

ConfigWriteAppends(old, cfg) == old \o cfg

\* lines 115-116: open(credentials_file, 'w'), config.write(f)
ConfigWrite(old, cfg) == cfg

NoCreds == [exists |-> FALSE, sections |-> <<>>]
Creds(secs) == [exists |-> TRUE, sections |-> secs]

\* ~/.aws/credentials as the user may have it before the installer first runs
InitialCredentials ==
    {NoCreds,
     Creds(<<>>),
     Creds(<<Section("default", <<Pair("aws_access_key_id", "AK"),
                                  Pair("region", "us-east-1")>>)>>),
     Creds(<<Section("default", <<Pair("AWS_ACCESS_KEY_ID", "AK")>>),
             Section(SECTION, <<Pair("Region", "eu-west-1"),
                                Pair(OPTION, "/old/creds.py")>>)>>),
     Creds(<<Section(SECTION, <<Pair(OPTION, "/old/creds.py")>>),
             Section("dev", <<Pair("region", "us-west-2")>>),
             Section(SECTION, <<Pair(OPTION, "/older/creds.py")>>)>>)}

NoRun == [url |-> Unset, key |-> Unset, dir0 |-> FALSE, script0 |-> NoScript,
          creds0 |-> NoCreds, prevOk |-> FALSE, prevUrl |-> Unset, prevKey |-> Unset]

InitInstaller ==
    /\ awsDir \in BOOLEAN
    /\ script = NoScript
    /\ credsFile \in InitialCredentials
    /\ awsDir = FALSE => credsFile = NoCreds
    /\ ipc = "idle"
    /\ icode = 0
    /\ run = NoRun

\* main() up to the return of create_temp_creds_script (lines 9-31, 85-96, 121-127)
CreateScript(u, k) ==
    /\ ipc \in {"idle", "done"}
    /\ run' = [url |-> u, key |-> k, dir0 |-> awsDir, script0 |-> script,
               creds0 |-> credsFile, prevOk |-> (ipc = "done" /\ icode = 0),
               prevUrl |-> run.url, prevKey |-> run.key]
    /\ IF MissingEnv(u, k)
       THEN /\ ipc' = "done"
            /\ icode' = 1
            /\ UNCHANGED <<awsDir, script, credsFile>>
       ELSE /\ awsDir' = TRUE
            /\ script' = [exists |-> TRUE, exec |-> TRUE,
                          text |-> ScriptContent(u.val, k.val)]
            /\ ipc' = "created"
            /\ icode' = 0
            /\ UNCHANGED credsFile
    /\ UNCHANGED fetcherVars

\* update_aws_credentials_config and the rest of main() (lines 98-119, 130-140)
UpdateConfig ==
    /\ ipc = "created"
    /\ ipc' = "done"
    /\ IF credsFile.exists /\ ~ConfigReadable(credsFile.sections)
       THEN /\ icode' = 1
            /\ UNCHANGED credsFile
       ELSE /\ icode' = 0
            /\ credsFile' = Creds(ConfigWrite(credsFile.sections,
                                  Upsert(ConfigRead(credsFile.sections), SCRIPT_PATH)))
    /\ UNCHANGED <<awsDir, script, run, fetcherVars>>

(***************************************************************************)
(* Specifications.                                                         *)
(***************************************************************************)
InstallerIdle ==
    /\ awsDir = TRUE
    /\ script = NoScript
    /\ credsFile = NoCreds
    /\ ipc = "idle"
    /\ icode = 0
    /\ run = NoRun

\* fetcher invocations one after the other, the clock running
Init == InitFetcher /\ InstallerIdle

Next ==
    \/ Tick
    \/ GetCached(1)
    \/ Request(1)
    \/ OpenCache(1)
    \/ DumpCache(1)

Spec == Init /\ [][Next]_vars

\* two fetcher invocations at a time on the same cache file, which is absent
\* or as an earlier invocation left it; each runs once, the clock stands still
CachesWritten ==
    {[exists |-> TRUE, data |-> JsonDump(Normalized(b))] :
        b \in {x \in Bodies : CanParseExpiration(x)}}

InitRace ==
    /\ InstallerIdle
    /\ now \in 0..MaxTime
    /\ cache \in {NoFile} \cup CachesWritten
    /\ lastWrite = NoWrite
    /\ pc = [p \in Procs |-> "idle"]
    /\ cred = [p \in Procs |-> <<>>]
    /\ out = [p \in Procs |-> <<>>]
    /\ code = [p \in Procs |-> 0]
    /\ tb = [p \in Procs |-> FALSE]
    /\ calls = [p \in Procs |-> 0]
    /\ seen = [p \in Procs |-> NoFile]
    /\ seenAt = [p \in Procs |-> 0]
    /\ resp = [p \in Procs |-> NoResponse]

NextRace ==
    \/ \E p \in Procs : pc[p] = "idle" /\ GetCached(p)
    \/ \E p \in Procs : Request(p)
    \/ \E p \in Procs : OpenCache(p)
    \/ \E p \in Procs : DumpCache(p)

SpecRace == InitRace /\ [][NextRace]_vars

\* installer runs one after the other
InitInstall == InitFetcher /\ InitInstaller

NextInstall ==
    \/ \E u \in ApiUrls, k \in ApiKeys : CreateScript(u, k)
    \/ UpdateConfig

SpecInstall == InitInstall /\ [][NextInstall]_vars

(***************************************************************************)
(* What an invocation found, in the claims' own words.                     *)
(***************************************************************************)
Done(p) == pc[p] = "done"

\* the cache file p found holds a record with a readable Expiration
FoundRecord(p) ==
    /\ seen[p].exists
    /\ JsonValid(seen[p].data)
    /\ Has(JsonLoad(seen[p].data), "Expiration")
    /\ Get(JsonLoad(seen[p].data), "Expiration").kind = "iso"

FoundExpiration(p) == Instant(Get(JsonLoad(seen[p].data), "Expiration"))

\* now < Expiration - 5 minutes
FoundFresh(p) == FoundRecord(p) /\ seenAt[p] < FoundExpiration(p) - 5

\* now >= Expiration - 5 minutes
FoundStale(p) == FoundRecord(p) /\ seenAt[p] >= FoundExpiration(p) - 5

\* the response was a 2xx one whose record has an ISO-8601 Expiration
GotRecord(p) ==
    /\ resp[p].status = "ok"
    /\ Has(resp[p].body, "Expiration")
    /\ Get(resp[p].body, "Expiration").kind = "iso"

\* obj is the record the API returned: every field of it, in its place, with
\* the API's value, and an Expiration that spells the API's wall-clock time
IsFetched(obj, body) ==
    /\ Len(obj) = Len(body)
    /\ \A i \in 1..Len(body) :
        /\ obj[i].k = body[i].k
        /\ body[i].k # "Expiration" => obj[i].v = body[i].v
        /\ body[i].k = "Expiration" => obj[i].v.kind = "iso" /\ obj[i].v.wall = body[i].v.wall

(***************************************************************************)
(* The claims about the fetcher, under Spec.                               *)
(***************************************************************************)

\* C1: an invocation that finds a cache file with now < Expiration - 5 minutes
\* makes no network call, leaves the cache file as it found it, and prints
\* the cached record unmodified, exiting with code 0.
C1_FreshCacheIsReturned ==
    FoundFresh(1) =>
        /\ Done(1)
        /\ calls[1] = 0
        /\ cache = seen[1]
        /\ out[1] = <<JsonLoad(seen[1].data)>>
        /\ code[1] = 0
        /\ ~tb[1]

C1_Witness ==
    /\ FoundFresh(1)
    /\ Done(1)
    /\ seenAt[1] > 0
    /\ seenAt[1] = FoundExpiration(1) - 5 - 1
    /\ out[1] = <<JsonLoad(cache.data)>>

\* C2: an invocation that finds a cache file with now >= Expiration - 5 minutes
\* (the boundary and an expired record included) makes exactly one network
\* call, and when the response carries a record, the cache file holds that
\* record afterwards and the invocation prints it.
C2_StaleCacheIsRefetched ==
    FoundStale(1) =>
        /\ pc[1] = "request" => calls[1] = 0
        /\ pc[1] # "request" => calls[1] = 1
        /\ Done(1) /\ GotRecord(1) =>
            /\ cache = [exists |-> TRUE, data |-> JsonDump(cred[1])]
            /\ IsFetched(cred[1], resp[1].body)
            /\ out[1] = <<cred[1]>>
            /\ code[1] = 0

\* the record found had expired before the invocation ran
C2_Witness ==
    /\ FoundStale(1)
    /\ seenAt[1] > FoundExpiration(1)
    /\ Done(1)
    /\ GotRecord(1)
    /\ calls[1] = 1
    /\ cache # seen[1]
    /\ JsonLoad(cache.data) = cred[1]

\* the boundary case of C2: the invocation ran at Expiration - 5 minutes exactly
C2_BoundaryReached ==
    /\ FoundStale(1)
    /\ seenAt[1] = FoundExpiration(1) - 5
    /\ Done(1)
    /\ GotRecord(1)
    /\ calls[1] = 1
    /\ cache # seen[1]
    /\ JsonLoad(cache.data) = cred[1]

\* the case of C2 between the two: stale, not yet expired
C2_WithinThresholdReached ==
    /\ FoundStale(1)
    /\ seenAt[1] > FoundExpiration(1) - 5
    /\ seenAt[1] < FoundExpiration(1)
    /\ Done(1)
    /\ GotRecord(1)
    /\ calls[1] = 1
    /\ JsonLoad(cache.data) = cred[1]

\* C3: when the request fails (network error or non-2xx status) the invocation
\* prints exactly one JSON error object and no credential record, exits with
\* a non-zero code, has made one request only, and leaves the cache file as
\* it found it.
C3_RequestFailureIsFatal ==
    Done(1) /\ resp[1].status \in {"network_error", "http_error"} =>
        /\ Len(out[1]) = 1
        /\ Has(out[1][1], "error")
        /\ ~Has(out[1][1], "AccessKeyId")
        /\ code[1] # 0
        /\ calls[1] = 1
        /\ cache = seen[1]

C3_Witness ==
    /\ Done(1)
    /\ resp[1].status = "http_error"
    /\ FoundStale(1)
    /\ out[1] = <<ErrorObject>>
    /\ code[1] = 1
    /\ cache = seen[1]

\* C4: a 2xx response whose Expiration is missing or malformed ends in the
\* structured failure (JSON error object printed, non-zero exit code), not in
\* an uncaught exception, and the cache file is not overwritten.
C4_BadExpirationIsStructuredFailure ==
    Done(1) /\ resp[1].status = "ok" /\ ~GotRecord(1) =>
        /\ ~tb[1]
        /\ Len(out[1]) = 1
        /\ Has(out[1][1], "error")
        /\ code[1] # 0
        /\ cache = seen[1]

C4_Reached ==
    /\ Done(1)
    /\ resp[1].status = "ok"
    /\ ~Has(resp[1].body, "Expiration")
    /\ tb[1]
    /\ out[1] = <<>>

\* C7: the Expiration in the cache file is the API's Expiration normalized to
\* UTC: ISO-8601 text with the UTC offset, denoting the instant the API's
\* value denotes.
C7_ExpirationIsSameInstantInUtc ==
    lastWrite.by # 0 /\ JsonValid(cache.data) =>
        LET held == Get(JsonLoad(cache.data), "Expiration")
            given == Get(lastWrite.body, "Expiration")
        IN  /\ held.kind = "iso"
            /\ held.aware
            /\ held.off = 0
            /\ Instant(held) = Instant(given)

C7_Reached ==
    /\ lastWrite.by # 0
    /\ JsonValid(cache.data)
    /\ Get(lastWrite.body, "Expiration").off # 0
    /\ Get(JsonLoad(cache.data), "Expiration").wall = Get(lastWrite.body, "Expiration").wall

\* C8: once an invocation has fetched a record and written it to the cache, a
\* following invocation that runs while now < Expiration - 5 minutes prints a
\* record equal in every field to the one the fetching invocation printed,
\* and makes no network call.
C8_RoundTrip ==
    Done(1) /\ lastWrite.by # 0 /\ FoundFresh(1) =>
        /\ out[1] = <<lastWrite.printed>>
        /\ calls[1] = 0

C8_Witness ==
    /\ Done(1)
    /\ lastWrite.by # 0
    /\ FoundFresh(1)
    /\ calls[1] = 0
    /\ Has(lastWrite.printed, "Version")
    /\ Get(lastWrite.body, "Expiration").aware = FALSE
    /\ out[1] = <<lastWrite.printed>>

(***************************************************************************)
(* The claim about racing invocations, under SpecRace.                     *)
(***************************************************************************)
Wrote(p) == Done(p) /\ calls[p] = 1 /\ GotRecord(p)

\* C9: two invocations that both found the cache stale or absent and both
\* fetched each overwrite the cache file, and once both have finished the
\* file holds exactly the record of the one that wrote last.
C9_LastWriterWins ==
    (\A p \in Procs : Wrote(p)) =>
        cache = [exists |-> TRUE, data |-> JsonDump(cred[lastWrite.by])]

C9_BothFetch ==
    /\ \A p \in Procs : pc[p] = "open" /\ calls[p] = 1 /\ FoundStale(p)
    /\ seen[1] = seen[2]
    /\ cache = seen[1]

(***************************************************************************)
(* The claims about the installer, under SpecInstall.                      *)
(***************************************************************************)
Installed == ipc = "done" /\ icode = 0

ProfileSections(secs) == {i \in 1..Len(secs) : secs[i].name = "temp-creds-session"}

TemplateText == {ScriptTemplate[1], ScriptTemplate[3], ScriptTemplate[5]}

\* C5: after any number of installer runs, a run that succeeded leaves the
\* credentials file with exactly one temp-creds-session section, whose
\* credential_process is the script path, and a script that embeds the
\* values of that run only; a run with the values of the successful run
\* before it leaves the files as it found them.
C5_RerunUpdatesInPlace ==
    Installed =>
        /\ Cardinality(ProfileSections(credsFile.sections)) = 1
        /\ \A i \in ProfileSections(credsFile.sections) :
               LET opts == credsFile.sections[i].opts
               IN  /\ \E a \in 1..Len(opts) :
                          opts[a] = Pair("credential_process", "~/.aws/get_temp_creds.py")
                   /\ Cardinality({a \in 1..Len(opts) : opts[a].k = "credential_process"}) = 1
        /\ script.exists
        /\ script.exec
        /\ Len(script.text) = Len(ScriptTemplate)
        /\ \A i \in 1..Len(script.text) :
               script.text[i] \in TemplateText \cup {run.url.val, run.key.val}
        /\ script.text[4] = run.key.val
        /\ script.text[2] \in {run.url.val, run.key.val}
        /\ run.prevOk /\ run.prevUrl = run.url /\ run.prevKey = run.key =>
               /\ awsDir = run.dir0
               /\ script = run.script0
               /\ credsFile = run.creds0

C5_Witness ==
    /\ Installed
    /\ run.prevOk
    /\ run.prevUrl = Val("https://one")
    /\ run.url = Val("https://two")
    /\ run.script0.text[2] = "https://one"
    /\ script.text[2] = "https://two"
    /\ Cardinality(ProfileSections(run.creds0.sections)) = 1
    /\ Cardinality(ProfileSections(credsFile.sections)) = 1
    /\ Len(credsFile.sections) = 2

\* C6: when either environment variable is absent or empty the installer
\* exits with code 1 before it touches the file system: no directory is
\* made, no script written, the credentials file is as it was.
C6_MissingEnvFailsFast ==
    /\ ipc = "created" =>
           run.url.set /\ run.url.val # "" /\ run.key.set /\ run.key.val # ""
    /\ ipc = "done" /\ (~run.url.set \/ run.url.val = "" \/ ~run.key.set \/ run.key.val = "") =>
           /\ icode = 1
           /\ awsDir = run.dir0
           /\ script = run.script0
           /\ credsFile = run.creds0

C6_Witness ==
    /\ ipc = "done"
    /\ run.url = Val("")
    /\ run.key = Val("key-one")
    /\ icode = 1
    /\ ~awsDir
    /\ ~script.exists
    /\ ~credsFile.exists

\* the options of `before` are in `after`, each with its value
KeepsOptions(before, after) ==
    \A a \in 1..Len(before) : \E b \in 1..Len(after) : after[b] = before[a]

\* the same, with the option names of `before` in lower case
KeepsOptionsLowered(before, after) ==
    \A a \in 1..Len(before) : \E b \in 1..Len(after) :
        after[b] = Pair(Lower(before[a].k), before[a].v)

\* C10 as claimed: a successful run changes only the temp-creds-session
\* section: every other section is there afterwards with the same keys and
\* values, and in temp-creds-session only credential_process is set.
C10_OnlyProfileChanges ==
    Installed =>
        /\ \A i \in 1..Len(run.creds0.sections) :
               \E j \in 1..Len(credsFile.sections) :
                   /\ credsFile.sections[j].name = run.creds0.sections[i].name
                   /\ KeepsOptions(
                          SelectSeq(run.creds0.sections[i].opts,
                                    LAMBDA o : ~(run.creds0.sections[i].name = "temp-creds-session"
                                                 /\ o.k = "credential_process")),
                          credsFile.sections[j].opts)
        /\ \A j \in 1..Len(credsFile.sections) :
               \/ /\ credsFile.sections[j].name = "temp-creds-session"
                  /\ \/ \E i \in 1..Len(run.creds0.sections) :
                            /\ run.creds0.sections[i].name = "temp-creds-session"
                            /\ KeepsOptions(
                                   SelectSeq(credsFile.sections[j].opts,
                                             LAMBDA o : o.k # "credential_process"),
                                   run.creds0.sections[i].opts)
                     \/ Len(credsFile.sections[j].opts) = 1
               \/ \E i \in 1..Len(run.creds0.sections) :
                      /\ run.creds0.sections[i].name = credsFile.sections[j].name
                      /\ KeepsOptions(credsFile.sections[j].opts, run.creds0.sections[i].opts)

\* C10 amended: the same, the option names compared in lower case, which is
\* how the file is written back.
C10_OnlyProfileChangesLowered ==
    Installed =>
        /\ \A i \in 1..Len(run.creds0.sections) :
               \E j \in 1..Len(credsFile.sections) :
                   /\ credsFile.sections[j].name = run.creds0.sections[i].name
                   /\ KeepsOptionsLowered(
                          SelectSeq(run.creds0.sections[i].opts,
                                    LAMBDA o : ~(run.creds0.sections[i].name = "temp-creds-session"
                                                 /\ o.k = "credential_process")),
                          credsFile.sections[j].opts)
        /\ \A j \in 1..Len(credsFile.sections) :
               \/ /\ credsFile.sections[j].name = "temp-creds-session"
                  /\ \/ \E i \in 1..Len(run.creds0.sections) :
                            /\ run.creds0.sections[i].name = "temp-creds-session"
                            /\ Len(credsFile.sections[j].opts) = Len(run.creds0.sections[i].opts)
                            /\ KeepsOptionsLowered(
                                   SelectSeq(run.creds0.sections[i].opts,
                                             LAMBDA o : o.k # "credential_process"),
                                   credsFile.sections[j].opts)
                     \/ Len(credsFile.sections[j].opts) = 1
               \/ \E i \in 1..Len(run.creds0.sections) :
                      /\ run.creds0.sections[i].name = credsFile.sections[j].name
                      /\ Len(credsFile.sections[j].opts) = Len(run.creds0.sections[i].opts)
                      /\ KeepsOptionsLowered(run.creds0.sections[i].opts,
                                             credsFile.sections[j].opts)

C10_Witness ==
    /\ Installed
    /\ Len(run.creds0.sections) = 2
    /\ run.creds0.sections[1] = Section("default", <<Pair("AWS_ACCESS_KEY_ID", "AK")>>)
    /\ credsFile.sections[1] = Section("default", <<Pair("aws_access_key_id", "AK")>>)
    /\ run.creds0.sections[2].opts[2] = Pair("credential_process", "/old/creds.py")
    /\ credsFile.sections[2] =
           Section("temp-creds-session",
                   <<Pair("region", "eu-west-1"),
                     Pair("credential_process", "~/.aws/get_temp_creds.py")>>)

====
